---------------------------- MODULE Spec2Model ----------------------------
(***************************************************************************)
(* Model of gmu/s3/s3.go: the Path value type (Join, Append, ToURI,        *)
(* FromURI) and the parts of the S3 client that carry logic of their own   *)
(* (AddBucketTag, DeleteRecursive, listBase).                              *)
(*                                                                         *)
(* A Go string is a sequence of bytes, modelled as a sequence of integers  *)
(* in 0..255.  The library functions the code calls (strings.Trim,         *)
(* path.Join, url.Parse, URL.String) are modelled by what they compute.    *)
(***************************************************************************)
EXTENDS Integers, Sequences, FiniteSets, TLC

(***************************************************************************)
(* Bytes and strings                                                       *)
(***************************************************************************)

\* The printable ASCII characters, code 32 (space) to code 126 (~), in order
\* (the grave accent, code 96, is spelled out).
Ascii ==
    << " ", "!", "\"", "#", "$", "%", "&", "'", "(", ")", "*", "+", ",", "-", ".", "/",
       "0", "1", "2", "3", "4", "5", "6", "7", "8", "9", ":", ";", "<", "=", ">", "?",
       "@", "A", "B", "C", "D", "E", "F", "G", "H", "I", "J", "K", "L", "M", "N", "O",
       "P", "Q", "R", "S", "T", "U", "V", "W", "X", "Y", "Z", "[", "\\", "]", "^", "_",
       "grave", "a", "b", "c", "d", "e", "f", "g", "h", "i", "j", "k", "l", "m", "n", "o",
       "p", "q", "r", "s", "t", "u", "v", "w", "x", "y", "z", "{", "|", "}", "~" >>

\* The byte of a printable character.
Ord(c) == 31 + (CHOOSE i \in 1..Len(Ascii) : Ascii[i] = c)

\* The byte string of a tuple of printable characters.
Str(t) == [i \in 1..Len(t) |-> Ord(t[i])]

SLASH == Ord("/")
DOT == Ord(".")
COLON == Ord(":")
PERCENT == Ord("%")
QUESTION == Ord("?")
HASH == Ord("#")
AT == Ord("@")
STAR == Ord("*")
LBRACKET == Ord("[")
RBRACKET == Ord("]")

\* The value of F at v, with v worked out once.
Bind(v, F(_)) == CHOOSE y \in {F(x) : x \in {v}} : TRUE

\* s[i:] of Go, with a 0-based index i.
From(s, i) == SubSeq(s, i + 1, Len(s))

\* s[:i] of Go, with a 0-based index i.
Upto(s, i) == SubSeq(s, 1, i)

\* strings.HasPrefix
HasPrefix(s, pre) == Len(s) >= Len(pre) /\ SubSeq(s, 1, Len(pre)) = pre

\* strings.Index for a single byte: the 0-based index of its first
\* occurrence, -1 when there is none.
IndexByte(s, c) ==
    IF \E i \in 1..Len(s) : s[i] = c
    THEN (CHOOSE i \in 1..Len(s) : s[i] = c /\ \A j \in 1..(i - 1) : s[j] # c) - 1
    ELSE -1

\* strings.LastIndex for a single byte.
LastIndexByte(s, c) ==
    IF \E i \in 1..Len(s) : s[i] = c
    THEN (CHOOSE i \in 1..Len(s) : s[i] = c /\ \A j \in (i + 1)..Len(s) : s[j] # c) - 1
    ELSE -1

\* strings.Count for a single byte.
CountByte(s, c) == Cardinality({i \in 1..Len(s) : s[i] = c})

RECURSIVE TrimLeft(_, _)
TrimLeft(s, c) == IF s # << >> /\ Head(s) = c THEN TrimLeft(Tail(s), c) ELSE s

RECURSIVE TrimRight(_, _)
TrimRight(s, c) ==
    IF s # << >> /\ s[Len(s)] = c THEN TrimRight(SubSeq(s, 1, Len(s) - 1), c) ELSE s

\* strings.Trim(s, "/") for a one-byte cutset.
Trim(s, c) == TrimRight(TrimLeft(s, c), c)

(***************************************************************************)
(* path.Clean and path.Join                                                *)
(***************************************************************************)

\* The ".." case of path.Clean: back up over the last element of out (out.w-- and
\* the loop to the previous '/'), or append ".." when there is nothing to back up
\* over and the path is not rooted.  Gives the new buffer and the new dotdot mark.
RECURSIVE Backtrack(_, _, _)
Backtrack(out, w, dotdot) ==
    IF w > dotdot /\ out[w + 1] # SLASH THEN Backtrack(out, w - 1, dotdot) ELSE Upto(out, w)

CleanDotDot(out, dotdot, rooted) ==
    IF Len(out) > dotdot
    THEN [out |-> Backtrack(out, Len(out) - 1, dotdot), dotdot |-> dotdot]
    ELSE IF ~rooted
         THEN LET o == (IF Len(out) > 0 THEN Append(out, SLASH) ELSE out) \o <<DOT, DOT>>
              IN [out |-> o, dotdot |-> Len(o)]
         ELSE [out |-> out, dotdot |-> dotdot]

\* The 0-based index of the first '/' at or after r, or n when there is none.
RECURSIVE ElemEnd(_, _)
ElemEnd(path, r) ==
    IF r < Len(path) /\ path[r + 1] # SLASH THEN ElemEnd(path, r + 1) ELSE r

\* The main loop of path.Clean, from read index r (0-based).
RECURSIVE CleanLoop(_, _, _, _, _)
CleanLoop(path, r, out, dotdot, rooted) ==
    LET n == Len(path)
        at(i) == path[i + 1]
    IN IF r >= n THEN out
       ELSE IF at(r) = SLASH
            THEN CleanLoop(path, r + 1, out, dotdot, rooted)
       ELSE IF at(r) = DOT /\ (r + 1 = n \/ at(r + 1) = SLASH)
            THEN CleanLoop(path, r + 1, out, dotdot, rooted)
       ELSE IF at(r) = DOT /\ at(r + 1) = DOT /\ (r + 2 = n \/ at(r + 2) = SLASH)
            THEN LET d == CleanDotDot(out, dotdot, rooted)
                 IN CleanLoop(path, r + 2, d.out, d.dotdot, rooted)
       ELSE LET sep == IF (rooted /\ Len(out) # 1) \/ (~rooted /\ Len(out) # 0)
                       THEN Append(out, SLASH) ELSE out
                e == ElemEnd(path, r)
            IN CleanLoop(path, e, sep \o SubSeq(path, r + 1, e), dotdot, rooted)

\* path.Clean
Clean(path) ==
    IF path = << >> THEN <<DOT>>
    ELSE LET rooted == path[1] = SLASH
             out == IF rooted
                    THEN CleanLoop(path, 1, <<SLASH>>, 1, TRUE)
                    ELSE CleanLoop(path, 0, << >>, 0, FALSE)
         IN IF out = << >> THEN <<DOT>> ELSE out

\* path.Join of two elements: empty elements are ignored, the rest are joined
\* by '/', and the result is cleaned; "" when both are empty.
PathJoin(a, b) ==
    IF a = << >> /\ b = << >> THEN << >>
    ELSE IF a = << >> THEN Clean(b)
    ELSE Clean(a \o <<SLASH>> \o b)

(***************************************************************************)
(* Path: Join and Append                                                   *)
(***************************************************************************)

\* type Path struct { Bucket string; Key string }
MkPath(bucket, key) == [Bucket |-> bucket, Key |-> key]

\* The zero value Path{}.
ZeroPath == MkPath(<< >>, << >>)

\* A Join that trims neither part, to be told from Join.
JoinUntrimmed(p) == PathJoin(p.Bucket, p.Key)

\* func (p Path) Join() string
Join(p) ==
    LET cleanBucket == Trim(p.Bucket, SLASH)
        cleanKey == Trim(p.Key, SLASH)
    IN PathJoin(cleanBucket, cleanKey)

\* An Append that joins Key and suffix as Join does, trimming both, to be told
\* from Append.
AppendTrimmed(p, key) == MkPath(p.Bucket, PathJoin(Trim(p.Key, SLASH), Trim(key, SLASH)))

\* func Append(p Path, key string) Path
AppendPath(p, key) == MkPath(p.Bucket, PathJoin(p.Key, key))

(***************************************************************************)
(* net/url: escaping                                                       *)
(***************************************************************************)

LowerA == Ord("a")
LowerF == Ord("f")
LowerZ == Ord("z")
UpperA == Ord("A")
UpperF == Ord("F")
UpperZ == Ord("Z")
Digit0 == Ord("0")
Digit9 == Ord("9")
SPACE == Ord(" ")
DEL == Ord("~") + 1

IsLower(c) == LowerA <= c /\ c <= LowerZ
IsUpper(c) == UpperA <= c /\ c <= UpperZ
IsDigit(c) == Digit0 <= c /\ c <= Digit9
IsAlnum(c) == IsLower(c) \/ IsUpper(c) \/ IsDigit(c)

\* The encoding modes of net/url that the code reaches.
Modes == {"encodePath", "encodeHost", "encodeUserPassword", "encodeFragment"}

\* func ishex(c byte) bool
ishex(c) == IsDigit(c) \/ (LowerA <= c /\ c <= LowerF) \/ (UpperA <= c /\ c <= UpperF)

\* func unhex(c byte) byte
unhex(c) ==
    IF IsDigit(c) THEN c - Digit0
    ELSE IF LowerA <= c /\ c <= LowerF THEN c - LowerA + 10
    ELSE IF UpperA <= c /\ c <= UpperF THEN c - UpperA + 10
    ELSE 0

\* upperhex[n] for n in 0..15
upperhex(n) == IF n < 10 THEN Digit0 + n ELSE UpperA + (n - 10)

Unreserved == {Ord("-"), Ord("_"), Ord("."), Ord("~")}
Reserved == {Ord("$"), Ord("&"), Ord("+"), Ord(","), Ord("/"), Ord(":"), Ord(";"),
             Ord("="), Ord("?"), Ord("@")}
HostAllowed == {Ord("!"), Ord("$"), Ord("&"), Ord("'"), Ord("("), Ord(")"), Ord("*"),
                Ord("+"), Ord(","), Ord(";"), Ord("="), Ord(":"), Ord("["), Ord("]"),
                Ord("<"), Ord(">"), Ord("\"")}
FragmentAllowed == {Ord("!"), Ord("("), Ord(")"), Ord("*")}

\* A shouldEscape that escapes nothing, to be told from shouldEscape.
shouldEscapeNothing(c, mode) == FALSE

\* func shouldEscape(c byte, mode encoding) bool
shouldEscape(c, mode) ==
    IF IsAlnum(c) THEN FALSE
    ELSE IF mode = "encodeHost" /\ c \in HostAllowed THEN FALSE
    ELSE IF c \in Unreserved THEN FALSE
    ELSE IF c \in Reserved
         THEN CASE mode = "encodePath" -> c = QUESTION
                [] mode = "encodeUserPassword" ->
                       c \in {AT, SLASH, QUESTION, COLON}
                [] mode = "encodeFragment" -> FALSE
                [] OTHER -> TRUE
    ELSE IF mode = "encodeFragment" /\ c \in FragmentAllowed THEN FALSE
    ELSE TRUE

\* func escape(s string, mode encoding) string, for the modes that have no
\* special case for the space.
RECURSIVE escape(_, _)
escape(s, mode) ==
    IF s = << >> THEN << >>
    ELSE LET c == Head(s)
         IN (IF shouldEscape(c, mode)
             THEN <<PERCENT, upperhex(c \div 16), upperhex(c % 16)>>
             ELSE <<c>>) \o escape(Tail(s), mode)

\* The first pass of unescape: "" when every '%' starts a well-formed escape
\* that the mode allows and no byte is invalid for the mode, the error otherwise.
RECURSIVE unescapeCheck(_, _)
unescapeCheck(s, mode) ==
    IF s = << >> THEN ""
    ELSE IF Head(s) = PERCENT
         THEN IF Len(s) < 3 \/ ~ishex(s[2]) \/ ~ishex(s[3])
              THEN "invalid URL escape"
              ELSE IF mode = "encodeHost" /\ unhex(s[2]) < 8
                      /\ SubSeq(s, 1, 3) # Str(<<"%", "2", "5">>)
                   THEN "invalid URL escape"
                   ELSE unescapeCheck(From(s, 3), mode)
    ELSE IF mode = "encodeHost" /\ Head(s) < 128 /\ shouldEscape(Head(s), "encodeHost")
         THEN "invalid character in host name"
         ELSE unescapeCheck(Tail(s), mode)

\* The second pass of unescape: every %XX replaced by the byte it stands for.
RECURSIVE unescapeDecode(_)
unescapeDecode(s) ==
    IF s = << >> THEN << >>
    ELSE IF Head(s) = PERCENT
         THEN <<unhex(s[2]) * 16 + unhex(s[3])>> \o unescapeDecode(From(s, 3))
         ELSE <<Head(s)>> \o unescapeDecode(Tail(s))

\* func unescape(s string, mode encoding) (string, error)
unescape(s, mode) ==
    Bind(unescapeCheck(s, mode), LAMBDA e :
        IF e # "" THEN [err |-> e, s |-> << >>] ELSE [err |-> "", s |-> unescapeDecode(s)])

(***************************************************************************)
(* net/url: Parse                                                          *)
(***************************************************************************)

\* The fields of url.URL that the code reads or writes.  HasUser stands for
\* User != nil.
MkURL(scheme, opaque, hasUser, host, path, forceQuery, rawQuery, fragment, omitHost) ==
    [Scheme |-> scheme, Opaque |-> opaque, HasUser |-> hasUser, Host |-> host,
     Path |-> path, ForceQuery |-> forceQuery, RawQuery |-> rawQuery,
     Fragment |-> fragment, OmitHost |-> omitHost]

EmptyURL == MkURL(<< >>, << >>, FALSE, << >>, << >>, FALSE, << >>, << >>, FALSE)

\* strings.ToLower on ASCII
ToLower(s) == [i \in 1..Len(s) |-> IF IsUpper(s[i]) THEN s[i] + (LowerA - UpperA) ELSE s[i]]

\* strings.Cut(s, sep) for a one-byte separator
CutByte(s, c) ==
    Bind(IndexByte(s, c), LAMBDA i :
        IF i < 0 THEN [before |-> s, after |-> << >>, found |-> FALSE]
        ELSE [before |-> Upto(s, i), after |-> From(s, i + 1), found |-> TRUE])

\* func stringContainsCTLByte(s string) bool
stringContainsCTLByte(s) == \E i \in 1..Len(s) : s[i] < SPACE \/ s[i] = DEL

\* func getScheme(rawURL string) (scheme, path string, err error), from index i
RECURSIVE getSchemeFrom(_, _)
getSchemeFrom(rawURL, i) ==
    IF i >= Len(rawURL) THEN [scheme |-> << >>, path |-> rawURL, err |-> ""]
    ELSE IF IsLower(rawURL[i + 1]) \/ IsUpper(rawURL[i + 1])
         THEN getSchemeFrom(rawURL, i + 1)
    ELSE IF IsDigit(rawURL[i + 1]) \/ rawURL[i + 1] \in {Ord("+"), Ord("-"), DOT}
         THEN IF i = 0 THEN [scheme |-> << >>, path |-> rawURL, err |-> ""]
              ELSE getSchemeFrom(rawURL, i + 1)
    ELSE IF rawURL[i + 1] = COLON
         THEN IF i = 0
              THEN [scheme |-> << >>, path |-> << >>, err |-> "missing protocol scheme"]
              ELSE [scheme |-> Upto(rawURL, i), path |-> From(rawURL, i + 1), err |-> ""]
    ELSE [scheme |-> << >>, path |-> rawURL, err |-> ""]

getScheme(rawURL) == getSchemeFrom(rawURL, 0)

\* func validOptionalPort(port string) bool
validOptionalPort(port) ==
    \/ port = << >>
    \/ /\ port[1] = COLON
       /\ \A i \in 2..Len(port) : IsDigit(port[i])

\* The port check of parseHost: the error, "" when there is none.
hostPortError(host) ==
    IF HasPrefix(host, <<LBRACKET>>)
    THEN Bind(LastIndexByte(host, RBRACKET), LAMBDA i :
             IF i < 0 THEN "missing ']' in host"
             ELSE IF ~validOptionalPort(From(host, i + 1))
                  THEN "invalid port after host" ELSE "")
    ELSE Bind(LastIndexByte(host, COLON), LAMBDA i :
             IF i # -1 /\ ~validOptionalPort(From(host, i))
             THEN "invalid port after host" ELSE "")

\* func parseHost(host string) (string, error).  The zone of an IPv6 literal
\* ("%25" inside brackets) is unescaped like the rest of the host.
parseHost(host) ==
    IF hostPortError(host) # ""
    THEN [err |-> hostPortError(host), s |-> << >>]
    ELSE unescape(host, "encodeHost")

UserinfoAllowed ==
    {Ord("-"), Ord("."), Ord("_"), Ord(":"), Ord("~"), Ord("!"), Ord("$"), Ord("&"),
     Ord("'"), Ord("("), Ord(")"), Ord("*"), Ord("+"), Ord(","), Ord(";"), Ord("="),
     Ord("%"), Ord("@")}

\* func validUserinfo(s string) bool
validUserinfo(s) == \A i \in 1..Len(s) : IsAlnum(s[i]) \/ s[i] \in UserinfoAllowed

\* The user information of parseAuthority: the error, "" when there is none.
userinfoError(userinfo) ==
    IF ~validUserinfo(userinfo) THEN "net/url: invalid userinfo"
    ELSE unescapeCheck(userinfo, "encodeUserPassword")

\* func parseAuthority(authority string) (user *Userinfo, host string, err error)
parseAuthority(authority) ==
    Bind(LastIndexByte(authority, AT), LAMBDA i :
    Bind(IF i < 0 THEN parseHost(authority) ELSE parseHost(From(authority, i + 1)), LAMBDA h :
        IF h.err # "" THEN [err |-> h.err, hasUser |-> FALSE, host |-> << >>]
        ELSE IF i < 0 THEN [err |-> "", hasUser |-> FALSE, host |-> h.s]
        ELSE Bind(userinfoError(Upto(authority, i)), LAMBDA e :
                 IF e # "" THEN [err |-> e, hasUser |-> FALSE, host |-> << >>]
                 ELSE [err |-> "", hasUser |-> TRUE, host |-> h.s])))

\* The query of parse: what is left of rest without it, ForceQuery and RawQuery.
splitQuery(rest) ==
    IF rest # << >> /\ rest[Len(rest)] = QUESTION /\ CountByte(rest, QUESTION) = 1
    THEN [rest |-> Upto(rest, Len(rest) - 1), ForceQuery |-> TRUE, RawQuery |-> << >>]
    ELSE Bind(CutByte(rest, QUESTION), LAMBDA c :
             [rest |-> c.before, ForceQuery |-> FALSE, RawQuery |-> c.after])

\* The authority of parse: rest[2:] cut at its first '/'.
splitAuthority(rest) ==
    Bind(From(rest, 2), LAMBDA authority :
    Bind(IndexByte(authority, SLASH), LAMBDA i :
        IF i >= 0 THEN [authority |-> Upto(authority, i), rest |-> From(authority, i)]
        ELSE [authority |-> authority, rest |-> << >>]))

parseFail(e) == [err |-> e, url |-> EmptyURL]

\* The end of parse: url.setPath(rest) on the URL built so far.
parseSetPath(url, rest) ==
    Bind(unescape(rest, "encodePath"), LAMBDA pth :
        IF pth.err # "" THEN parseFail(pth.err)
        ELSE [err |-> "", url |-> [url EXCEPT !.Path = pth.s]])

\* parse after the scheme and the query are split off.
parseRest(scheme, q) ==
    IF ~HasPrefix(q.rest, <<SLASH>>) /\ scheme # << >>
    THEN [err |-> "",
          url |-> MkURL(scheme, q.rest, FALSE, << >>, << >>, q.ForceQuery, q.RawQuery,
                        << >>, FALSE)]
    ELSE IF ~HasPrefix(q.rest, <<SLASH>>)
            /\ IndexByte(CutByte(q.rest, SLASH).before, COLON) >= 0
    THEN parseFail("first path segment in URL cannot contain colon")
    ELSE IF (scheme # << >> \/ ~HasPrefix(q.rest, <<SLASH, SLASH, SLASH>>))
            /\ HasPrefix(q.rest, <<SLASH, SLASH>>)
    THEN Bind(splitAuthority(q.rest), LAMBDA sa :
         Bind(parseAuthority(sa.authority), LAMBDA a :
             IF a.err # "" THEN parseFail(a.err)
             ELSE parseSetPath(MkURL(scheme, << >>, a.hasUser, a.host, << >>,
                                     q.ForceQuery, q.RawQuery, << >>, FALSE),
                               sa.rest)))
    ELSE parseSetPath(MkURL(scheme, << >>, FALSE, << >>, << >>, q.ForceQuery, q.RawQuery,
                            << >>, scheme # << >> /\ HasPrefix(q.rest, <<SLASH>>)),
                      q.rest)

\* func parse(rawURL string, viaRequest bool) (*URL, error), with viaRequest false
parse(rawURL) ==
    IF stringContainsCTLByte(rawURL)
    THEN parseFail("net/url: invalid control character in URL")
    ELSE IF rawURL = <<STAR>>
    THEN [err |-> "",
          url |-> MkURL(<< >>, << >>, FALSE, << >>, <<STAR>>, FALSE, << >>, << >>, FALSE)]
    ELSE Bind(getScheme(rawURL), LAMBDA sch :
             IF sch.err # "" THEN parseFail(sch.err)
             ELSE Bind(ToLower(sch.scheme), LAMBDA scheme :
                  Bind(splitQuery(sch.path), LAMBDA q : parseRest(scheme, q))))

\* A Go error value: nil, a ParseError of this package (the string it was made
\* from in arg), or the *url.Error of url.Parse (the text it names in arg, its
\* cause in msg).
NilError == [kind |-> "nil", arg |-> << >>, msg |-> ""]
ParseError(uri) == [kind |-> "ParseError", arg |-> uri, msg |-> ""]
UrlError(text, cause) == [kind |-> "url.Error", arg |-> text, msg |-> cause]

\* func Parse(rawURL string) (*URL, error)
Parse(rawURL) ==
    Bind(CutByte(rawURL, HASH), LAMBDA c :
    Bind(parse(c.before), LAMBDA r :
        IF r.err # "" THEN [err |-> UrlError(c.before, r.err), url |-> EmptyURL]
        ELSE IF c.after = << >> THEN [err |-> NilError, url |-> r.url]
        ELSE Bind(unescape(c.after, "encodeFragment"), LAMBDA f :
                 IF f.err # "" THEN [err |-> UrlError(rawURL, f.err), url |-> EmptyURL]
                 ELSE [err |-> NilError, url |-> [r.url EXCEPT !.Fragment = f.s]])))

(***************************************************************************)
(* net/url: String                                                         *)
(***************************************************************************)

\* func (u *URL) EscapedPath() string, for a URL whose RawPath is not set
EscapedPath(u) == IF u.Path = <<STAR>> THEN <<STAR>> ELSE escape(u.Path, "encodePath")

\* What String writes before the path: the scheme, "//" and the host.
urlStringHead(u) ==
    (IF u.Scheme # << >> THEN u.Scheme \o <<COLON>> ELSE << >>)
    \o (IF u.Scheme # << >> \/ u.Host # << >>
        THEN IF u.OmitHost /\ u.Host = << >> THEN << >>
             ELSE (IF u.Host # << >> \/ u.Path # << >> THEN <<SLASH, SLASH>> ELSE << >>)
                  \o (IF u.Host # << >> THEN escape(u.Host, "encodeHost") ELSE << >>)
        ELSE << >>)

\* What String writes after the path: the query and the fragment.
urlStringTail(u) ==
    (IF u.ForceQuery \/ u.RawQuery # << >> THEN <<QUESTION>> \o u.RawQuery ELSE << >>)
    \o (IF u.Fragment # << >>
        THEN <<HASH>> \o escape(u.Fragment, "encodeFragment") ELSE << >>)

\* func (u *URL) String() string, for a URL without user information
URLString(u) ==
    IF u.Opaque # << >>
    THEN (IF u.Scheme # << >> THEN u.Scheme \o <<COLON>> ELSE << >>)
         \o u.Opaque \o urlStringTail(u)
    ELSE Bind(urlStringHead(u), LAMBDA head :
         Bind(EscapedPath(u), LAMBDA path :
             head
             \o (IF path # << >> /\ path[1] # SLASH /\ u.Host # << >>
                 THEN <<SLASH>> ELSE << >>)
             \o (IF head = << >> /\ IndexByte(CutByte(path, SLASH).before, COLON) >= 0
                 THEN <<DOT, SLASH>> ELSE << >>)
             \o path \o urlStringTail(u)))

(***************************************************************************)
(* Path: ToURI and FromURI                                                 *)
(***************************************************************************)

S3Scheme == Str(<<"s", "3">>)
S3Prefix == Str(<<"s", "3", ":", "/", "/">>)

\* A ToURI that writes the joined path as it is, to be told from ToURI.
ToURIUnescaped(p) == S3Prefix \o Join(p)

\* func (p Path) ToURI() string
ToURI(p) ==
    Bind(Parse(S3Prefix).url, LAMBDA u :
    Bind([u EXCEPT !.Path = Join(p)], LAMBDA v : URLString(v)))

\* A key that keeps the leading '/' of the parsed path, to be told from KeyOf.
KeyOfUnstripped(upath) == upath

\* The key FromURI takes from the parsed path.
KeyOf(upath) == IF Len(upath) <= 1 THEN << >> ELSE From(upath, 1)

\* A FromURI that accepts an empty host, to be told from FromURI.
FromParsedAnyHost(uri, r) ==
    IF r.err # NilError THEN [path |-> ZeroPath, err |-> r.err]
    ELSE IF r.url.Scheme # S3Scheme THEN [path |-> ZeroPath, err |-> ParseError(uri)]
    ELSE [path |-> MkPath(r.url.Host, KeyOf(r.url.Path)), err |-> NilError]

\* A FromURI that answers every failure with ParseError, to be told from
\* FromURI.
FromParsedOneError(uri, r) ==
    IF r.err # NilError \/ r.url.Scheme # S3Scheme \/ Len(r.url.Host) = 0
    THEN [path |-> ZeroPath, err |-> ParseError(uri)]
    ELSE [path |-> MkPath(r.url.Host, KeyOf(r.url.Path)), err |-> NilError]

\* FromURI after url.Parse has answered r.
FromParsed(uri, r) ==
    IF r.err # NilError THEN [path |-> ZeroPath, err |-> r.err]
    ELSE IF r.url.Scheme # S3Scheme \/ Len(r.url.Host) = 0
         THEN [path |-> ZeroPath, err |-> ParseError(uri)]
    ELSE [path |-> MkPath(r.url.Host, KeyOf(r.url.Path)), err |-> NilError]

\* func FromURI(uri string) (Path, error)
FromURI(uri) == Bind(Parse(uri), LAMBDA r : FromParsed(uri, r))

(***************************************************************************)
(* The calls of the Path functions                                         *)
(***************************************************************************)

\* The longest Bucket and Key together of a Path that is passed in, and the
\* longest Key and suffix together that are passed to Append.
MaxLen == 4

\* The longest tail of a URI that is passed to FromURI.
MaxTail == 3

\* All byte strings over the alphabet of length n, and of length at most n.
RECURSIVE StringsOfLen(_, _)
StringsOfLen(alphabet, n) ==
    IF n = 0 THEN {<< >>}
    ELSE {<<c>> \o t : c \in alphabet, t \in StringsOfLen(alphabet, n - 1)}

StringsUpTo(alphabet, n) == UNION {StringsOfLen(alphabet, k) : k \in 0..n}

\* Pairs of strings over the alphabet whose lengths add up to at most n.
PairsUpTo(alphabet, n) ==
    UNION {{<<a, b>> : b \in StringsUpTo(alphabet, n - Len(a))} : a \in StringsUpTo(alphabet, n)}

\* The bytes of the Buckets and Keys passed in: a separator, a dot, a letter,
\* and two bytes that a URL path escapes.
PathAlphabet == {SLASH, DOT, Ord("a"), SPACE, PERCENT}

PathInputs == {MkPath(bk[1], bk[2]) : bk \in PairsUpTo(PathAlphabet, MaxLen)}

\* The Paths and suffixes passed to Append.
AppendAlphabet == {SLASH, DOT, Ord("a")}
AppendBuckets == {<< >>, Str(<<"b">>), Str(<<"/", "b">>)}
AppendInputs ==
    {<<MkPath(b, ks[1]), ks[2]>> : b \in AppendBuckets, ks \in PairsUpTo(AppendAlphabet, MaxLen)}

\* The strings passed to FromURI: a beginning followed by a short tail.
URIHeads ==
    { << >>,
      Str(<<"s", "3", ":">>),
      Str(<<"s", "3", ":", "/">>),
      Str(<<"s", "3", ":", "/", "/">>),
      Str(<<"S", "3", ":", "/", "/">>),
      Str(<<"s", ":", "/", "/">>),
      Str(<<"s", "3", ":", "/", "/", "b">>),
      Str(<<"s", "3", ":", "/", "/", "b", "/">>) }
URIAlphabet == {Ord("b"), Ord("2"), SLASH, PERCENT, COLON, QUESTION, HASH, AT, SPACE}
URIInputs == {h \o t : h \in URIHeads, t \in StringsUpTo(URIAlphabet, MaxTail)}

VARIABLES
    op,        \* the function of the call: "Join", "Append", "ToURI", "FromURI",
               \* or "RoundTrip" for FromURI(p.ToURI())
    pc,        \* "call" before the function has run, "done" after
    p,         \* the Path passed in
    arg,       \* the string passed in (Append's key, FromURI's uri)
    ret,       \* the string returned (Join, ToURI)
    retPath,   \* the Path returned (Append, FromURI)
    retErr,    \* the error returned (FromURI)
    tagSet,    \* the tags of the bucket, a map from key to value
    tagCall,   \* the last call of AddBucketTag and what it did
    objects,   \* the keys of the objects in the bucket
    objCall    \* the last call on objects and what it returned

pathVars == <<op, pc, p, arg, ret, retPath, retErr>>
tagVars == <<tagSet, tagCall>>
objVars == <<objects, objCall>>
vars == <<op, pc, p, arg, ret, retPath, retErr, tagSet, tagCall, objects, objCall>>

\* A call with its arguments, about to be made.
PathInit ==
    /\ pc = "call"
    /\ ret = << >>
    /\ retPath = ZeroPath
    /\ retErr = NilError
    /\ \/ op \in {"Join", "ToURI"} /\ p \in PathInputs /\ arg = << >>
       \/ op = "Append" /\ \E a \in AppendInputs : p = a[1] /\ arg = a[2]
       \/ op = "FromURI" /\ p = ZeroPath /\ arg \in URIInputs

\* No call of a Path function.
PathIdle ==
    /\ op = "none"
    /\ pc = "done"
    /\ p = ZeroPath
    /\ arg = << >>
    /\ ret = << >>
    /\ retPath = ZeroPath
    /\ retErr = NilError

CallJoin ==
    /\ pc = "call" /\ op = "Join"
    /\ pc' = "done"
    /\ ret' = Join(p)
    /\ UNCHANGED <<op, p, arg, retPath, retErr, tagVars, objVars>>

CallAppend ==
    /\ pc = "call" /\ op = "Append"
    /\ pc' = "done"
    /\ retPath' = AppendPath(p, arg)
    /\ UNCHANGED <<op, p, arg, ret, retErr, tagVars, objVars>>

CallToURI ==
    /\ pc = "call" /\ op = "ToURI"
    /\ pc' = "done"
    /\ ret' = ToURI(p)
    /\ UNCHANGED <<op, p, arg, retPath, retErr, tagVars, objVars>>

CallFromURI ==
    /\ pc = "call" /\ op = "FromURI"
    /\ pc' = "done"
    /\ \E r \in {FromURI(arg)} : retPath' = r.path /\ retErr' = r.err
    /\ UNCHANGED <<op, p, arg, ret, tagVars, objVars>>

\* FromURI(p.ToURI()): FromURI called on the string ToURI has just returned.
CallFromURIOfToURI ==
    /\ pc = "done" /\ op = "ToURI"
    /\ op' = "RoundTrip"
    /\ arg' = ret
    /\ \E r \in {FromURI(ret)} : retPath' = r.path /\ retErr' = r.err
    /\ UNCHANGED <<pc, p, ret, tagVars, objVars>>

(***************************************************************************)
(* The S3 service behind the client: one bucket, its tag set and objects   *)
(***************************************************************************)

\* An awserr.Error with its code, and an error that is no awserr.Error.
AwsError(code) == [kind |-> "awserr", arg |-> << >>, msg |-> code]
PlainError(text) == [kind |-> "error", arg |-> << >>, msg |-> text]

\* The number of tag keys and of tag values in use.
MaxTagKeys == 2
MaxTagVals == 2

TagKeyNames == <<"env", "team", "owner", "cost">>
TagValNames == <<"dev", "prod", "test", "qa">>
TagKeys == {TagKeyNames[i] : i \in 1..MaxTagKeys}
TagVals == {TagValNames[i] : i \in 1..MaxTagVals}

\* A Go map[string]string, and the maps passed to AddBucketTag.
EmptyMap == [k \in {} |-> ""]
TagMaps == UNION {[D -> TagVals] : D \in SUBSET TagKeys}

\* A nil *string in an s3.Tag.
NilString == "<nil>"

\* The keys of a map in the order the service lists them.
RECURSIVE SortedKeys(_)
SortedKeys(D) ==
    IF D = {} THEN << >>
    ELSE LET i == CHOOSE j \in 1..Len(TagKeyNames) :
                      /\ TagKeyNames[j] \in D
                      /\ \A l \in 1..(j - 1) : TagKeyNames[l] \notin D
         IN <<TagKeyNames[i]>> \o SortedKeys(D \ {TagKeyNames[i]})

\* The TagSet of a GetBucketTaggingOutput for the tags m.
TagSetOf(m) ==
    LET ks == SortedKeys(DOMAIN m)
    IN [i \in 1..Len(ks) |-> [Key |-> ks[i], Value |-> m[ks[i]]]]

\* The errors a call to the service can fail with, whatever the bucket holds.
ServiceFailures == {AwsError("AccessDenied"), PlainError("connection reset")}

\* The outcomes of s3.GetBucketTagging on a bucket with the tags m: the tag
\* set, the error NoSuchTagSet when the bucket has none, or a failure.
GetBucketTagging(m) ==
    (IF m = EmptyMap
     THEN {[err |-> AwsError("NoSuchTagSet"), TagSet |-> << >>]}
     ELSE {[err |-> NilError, TagSet |-> TagSetOf(m)]})
    \cup {[err |-> e, TagSet |-> << >>] : e \in ServiceFailures}

(***************************************************************************)
(* s3Client.AddBucketTag                                                   *)
(***************************************************************************)

\* tags[key] = value on a Go map
MapSet(tags, key, value) ==
    [k \in DOMAIN tags \cup {key} |-> IF k = key THEN value ELSE tags[k]]

\* The loop over getTagOutput.TagSet: the map tags after it.
RECURSIVE MergeTagSet(_, _, _)
MergeTagSet(tags, tagSetOut, overwrite) ==
    IF tagSetOut = << >> THEN tags
    ELSE LET tag == Head(tagSetOut)
         IN IF tag.Key = NilString \/ tag.Value = NilString
            THEN MergeTagSet(tags, Tail(tagSetOut), overwrite)
            ELSE IF tag.Key \in DOMAIN tags /\ overwrite
            THEN MergeTagSet(tags, Tail(tagSetOut), overwrite)
            ELSE MergeTagSet(MapSet(tags, tag.Key, tag.Value), Tail(tagSetOut), overwrite)

\* An AddBucketTag that lets the supplied tags win whatever overwrite says, to
\* be told from AddBucketTag.
AfterGetOverwrites(get, tags, overwrite) ==
    IF get.err # NilError
    THEN [stop |-> get.err # AwsError("NoSuchTagSet"), err |-> get.err, tags |-> tags]
    ELSE [stop |-> FALSE, err |-> NilError, tags |-> MergeTagSet(tags, get.TagSet, TRUE)]

\* An AddBucketTag that goes on after every failure of GetBucketTagging, to be
\* told from AddBucketTag.
AfterGetGoesOn(get, tags, overwrite) ==
    IF get.err # NilError
    THEN [stop |-> FALSE, err |-> NilError, tags |-> tags]
    ELSE [stop |-> FALSE, err |-> NilError, tags |-> MergeTagSet(tags, get.TagSet, overwrite)]

\* What AddBucketTag does with the answer of GetBucketTagging: return an
\* error (stop), or go on to PutBucketTagging with the map tags.
AfterGet(get, tags, overwrite) ==
    IF get.err # NilError
    THEN IF get.err.kind = "awserr"
         THEN IF get.err.msg = "NoSuchTagSet"
              THEN [stop |-> FALSE, err |-> NilError, tags |-> tags]
              ELSE [stop |-> TRUE, err |-> get.err, tags |-> tags]
         ELSE [stop |-> TRUE, err |-> get.err, tags |-> tags]
    ELSE [stop |-> FALSE, err |-> NilError,
          tags |-> MergeTagSet(tags, get.TagSet, overwrite)]

NoTagCall ==
    [op |-> "none", before |-> EmptyMap, tags |-> EmptyMap, overwrite |-> FALSE,
     getErr |-> NilError, putCalled |-> FALSE, putArg |-> EmptyMap, err |-> NilError]

TagInit ==
    /\ tagSet = EmptyMap
    /\ tagCall = NoTagCall

\* A caller invokes AddBucketTag(bucketName, tags, overwrite).
CallAddBucketTag(tags, overwrite) ==
    /\ tagCall.op # "call"
    /\ tagCall' = [NoTagCall EXCEPT !.op = "call", !.tags = tags, !.overwrite = overwrite]
    /\ UNCHANGED <<tagSet, pathVars, objVars>>

\* The body of AddBucketTag: get is the answer of GetBucketTagging, putErr
\* that of PutBucketTagging should it be called.
AddBucketTag(get, putErr) ==
    /\ tagCall.op = "call"
    /\ LET a == AfterGet(get, tagCall.tags, tagCall.overwrite)
       IN /\ tagCall' = [op |-> "AddBucketTag", before |-> tagSet, tags |-> tagCall.tags,
                         overwrite |-> tagCall.overwrite, getErr |-> get.err,
                         putCalled |-> ~a.stop,
                         putArg |-> IF a.stop THEN EmptyMap ELSE a.tags,
                         err |-> IF a.stop THEN a.err ELSE putErr]
          /\ tagSet' = IF ~a.stop /\ putErr = NilError THEN a.tags ELSE tagSet
    /\ UNCHANGED <<pathVars, objVars>>

(***************************************************************************)
(* Objects: listBase, List, ListDirectories, Upload, DeleteObject and      *)
(* DeleteRecursive                                                         *)
(***************************************************************************)

\* The longest object key, the most objects the bucket holds, and the longest
\* Key of a Path passed to the listing and deleting calls.
MaxKeyLen == 5
MaxObjects == 2
MaxDirLen == 1

ObjAlphabet == {SLASH, Ord("d")}
ObjectKeys == StringsUpTo(ObjAlphabet, MaxKeyLen) \ {<< >>}
DirKeys == StringsUpTo(ObjAlphabet, MaxDirLen)

\* The answer of the service to ListObjects / ListObjectsV2 with a prefix and
\* the delimiter "/" on a bucket holding the keys objs: Contents are the keys
\* with the prefix and no delimiter after it, CommonPrefixes the keys with the
\* prefix cut after the first delimiter that follows it.
ListObjects(objs, prefix) ==
    LET matching == {k \in objs : HasPrefix(k, prefix)}
        delim(k) == IndexByte(From(k, Len(prefix)), SLASH)
    IN [Contents |-> {k \in matching : delim(k) < 0},
        CommonPrefixes |-> {Upto(k, Len(prefix) + delim(k) + 1) :
                                k \in {m \in matching : delim(m) >= 0}}]

\* The Prefix that listBase sends for the Path key.
listBasePrefix(key) == IF key = << >> THEN key ELSE key \o <<SLASH>>

\* func (s3C s3Client) listBase(p Path) (*s3.ListObjectsV2Output, error)
listBase(objs, key) == ListObjects(objs, listBasePrefix(key))

\* The Prefix that DeleteRecursive sends for the Path key.
deletePrefix(key) == key \o <<SLASH>>

\* The objects the iterator of DeleteRecursive walks over: the Contents of
\* every page of the listing.
deleteListed(objs, key) == ListObjects(objs, deletePrefix(key)).Contents

NoObjCall == [op |-> "none", key |-> << >>, before |-> {}, out |-> {}, err |-> NilError]

ObjInit ==
    /\ objects = {}
    /\ objCall = NoObjCall

\* Upload(b, p): PutObject
Upload(key, err) ==
    /\ Cardinality(objects \cup {key}) <= MaxObjects
    /\ objects' = IF err = NilError THEN objects \cup {key} ELSE objects
    /\ objCall' = [op |-> "Upload", key |-> key, before |-> {}, out |-> {}, err |-> err]
    /\ UNCHANGED <<pathVars, tagVars>>

\* DeleteObject(p): DeleteObject
DeleteObject(key, err) ==
    /\ objects' = IF err = NilError THEN objects \ {key} ELSE objects
    /\ objCall' = [op |-> "DeleteObject", key |-> key, before |-> {}, out |-> {}, err |-> err]
    /\ UNCHANGED <<pathVars, tagVars>>

\* List(p): the keys of resp.Contents
List(key, err) ==
    /\ objects' = objects
    /\ objCall' = [op |-> "List", key |-> key, before |-> {},
                   out |-> IF err = NilError THEN listBase(objects, key).Contents ELSE {},
                   err |-> err]
    /\ UNCHANGED <<pathVars, tagVars>>

\* ListDirectories(p): the keys of resp.CommonPrefixes
ListDirectories(key, err) ==
    /\ objects' = objects
    /\ objCall' = [op |-> "ListDirectories", key |-> key, before |-> {},
                   out |-> IF err = NilError THEN listBase(objects, key).CommonPrefixes ELSE {},
                   err |-> err]
    /\ UNCHANGED <<pathVars, tagVars>>

\* DeleteRecursive(p): the batch delete over the listed objects.  It returns
\* nil when every listed object was deleted; when the listing fails nothing is
\* deleted, and when a batch fails some of the listed objects remain.
DeleteRecursive(key, deleted, err) ==
    /\ deleted \subseteq deleteListed(objects, key)
    /\ err = NilError => deleted = deleteListed(objects, key)
    /\ err \in ServiceFailures => deleted = {}
    /\ err = AwsError("BatchedDeleteIncomplete") => deleted # deleteListed(objects, key)
    /\ objects' = objects \ deleted
    /\ objCall' = [op |-> "DeleteRecursive", key |-> key, before |-> objects,
                   out |-> deleted, err |-> err]
    /\ UNCHANGED <<pathVars, tagVars>>

(***************************************************************************)
(* Specifications                                                          *)
(***************************************************************************)

\* The calls of the Path functions, each on arguments drawn at the start.
Init == PathInit /\ TagInit /\ ObjInit

Next ==
    \/ CallJoin
    \/ CallAppend
    \/ CallToURI
    \/ CallFromURI
    \/ CallFromURIOfToURI

Spec == Init /\ [][Next]_vars

\* The calls of AddBucketTag on one bucket.
InitTag == PathIdle /\ TagInit /\ ObjInit

NextTag ==
    \/ \E tags \in TagMaps, overwrite \in BOOLEAN : CallAddBucketTag(tags, overwrite)
    \/ \E get \in GetBucketTagging(tagSet), putErr \in {NilError} \cup ServiceFailures :
          AddBucketTag(get, putErr)

SpecTag == InitTag /\ [][NextTag]_vars

\* The calls on the objects of one bucket.
InitObj == PathIdle /\ TagInit /\ ObjInit

NextObj ==
    \/ \E key \in ObjectKeys, err \in {NilError, AwsError("AccessDenied")} : Upload(key, err)
    \/ \E key \in objects, err \in {NilError, AwsError("AccessDenied")} : DeleteObject(key, err)
    \/ \E key \in DirKeys, err \in {NilError} \cup ServiceFailures : List(key, err)
    \/ \E key \in DirKeys, err \in {NilError} \cup ServiceFailures : ListDirectories(key, err)
    \/ \E key \in DirKeys, deleted \in SUBSET objects,
          err \in {NilError, AwsError("BatchedDeleteIncomplete")} \cup ServiceFailures :
            DeleteRecursive(key, deleted, err)

SpecObj == InitObj /\ [][NextObj]_vars

(***************************************************************************)
(* Reference notions the properties are stated with                        *)
(***************************************************************************)

Done(f) == pc = "done" /\ op = f

\* t is s without its leading and trailing '/' and with nothing else changed.
IsTrimOf(t, s) ==
    /\ t = << >> \/ (t[1] # SLASH /\ t[Len(t)] # SLASH)
    /\ \E i \in 0..Len(s) :
          /\ SubSeq(s, i + 1, i + Len(t)) = t
          /\ i + Len(t) <= Len(s)
          /\ \A j \in (1..i) \cup ((i + Len(t) + 1)..Len(s)) : s[j] = SLASH

\* The segments of s between its '/' separators.
RECURSIVE Segments(_)
Segments(s) ==
    IF IndexByte(s, SLASH) < 0 THEN <<s>>
    ELSE <<Upto(s, IndexByte(s, SLASH))>> \o Segments(From(s, IndexByte(s, SLASH) + 1))

DotSeg == <<DOT>>
DotDotSeg == <<DOT, DOT>>

\* s is a non-empty relative path in which every segment is a name: no leading,
\* trailing or repeated '/', and no "." or ".." segment.
PlainPath(s) ==
    \A i \in 1..Len(Segments(s)) : Segments(s)[i] \notin {<< >>, DotSeg, DotDotSeg}

\* The lexical normal form of a path, segment by segment: empty and "."
\* segments are dropped, a ".." removes the name before it, is kept in front of
\* a relative path and dropped at the root.
RECURSIVE NormalSegments(_, _, _)
NormalSegments(segs, stack, rooted) ==
    IF segs = << >> THEN stack
    ELSE IF Head(segs) \in {<< >>, DotSeg} THEN NormalSegments(Tail(segs), stack, rooted)
    ELSE IF Head(segs) = DotDotSeg
         THEN IF stack # << >> /\ stack[Len(stack)] # DotDotSeg
              THEN NormalSegments(Tail(segs), SubSeq(stack, 1, Len(stack) - 1), rooted)
              ELSE IF rooted THEN NormalSegments(Tail(segs), stack, rooted)
              ELSE NormalSegments(Tail(segs), Append(stack, DotDotSeg), rooted)
    ELSE NormalSegments(Tail(segs), Append(stack, Head(segs)), rooted)

RECURSIVE JoinSegments(_)
JoinSegments(segs) ==
    IF segs = << >> THEN << >>
    ELSE IF Len(segs) = 1 THEN segs[1]
    ELSE segs[1] \o <<SLASH>> \o JoinSegments(Tail(segs))

NormalForm(s) ==
    LET rooted == s # << >> /\ s[1] = SLASH
        body == JoinSegments(NormalSegments(Segments(s), << >>, rooted))
    IN IF rooted THEN <<SLASH>> \o body
       ELSE IF body = << >> THEN DotSeg ELSE body

\* Two parts joined as a path: an empty part is left out with its separator,
\* and the result is in normal form; "" when both are empty.
JoinedParts(a, b) ==
    IF a = << >> /\ b = << >> THEN << >>
    ELSE IF a = << >> THEN NormalForm(b)
    ELSE IF b = << >> THEN NormalForm(a)
    ELSE NormalForm(a \o <<SLASH>> \o b)

\* The bytes a URL path carries unescaped.
PathSafe(c) ==
    \/ IsAlnum(c)
    \/ c \in {Ord("-"), Ord("_"), Ord("."), Ord("~"), Ord("$"), Ord("&"), Ord("+"),
              Ord(","), Ord("/"), Ord(":"), Ord(";"), Ord("="), Ord("@")}

\* The percent-encoding of s: path-safe bytes as they are, every other byte
\* as '%' and its two upper-case hexadecimal digits.
HexDigits == Str(<<"0", "1", "2", "3", "4", "5", "6", "7", "8", "9", "A", "B", "C", "D", "E", "F">>)

RECURSIVE PercentEncoded(_)
PercentEncoded(s) ==
    IF s = << >> THEN << >>
    ELSE (IF PathSafe(Head(s)) THEN <<Head(s)>>
          ELSE <<PERCENT, HexDigits[(Head(s) \div 16) + 1], HexDigits[(Head(s) % 16) + 1]>>)
         \o PercentEncoded(Tail(s))

\* The bytes of a bucket name that a URL host carries as they are.
BucketSafe(c) == IsAlnum(c) \/ c \in {Ord("-"), Ord("_"), Ord("."), Ord("~")}

\* s without one leading '/'.
StripOneSlash(s) == IF s # << >> /\ s[1] = SLASH THEN Tail(s) ELSE s

(***************************************************************************)
(* Properties                                                              *)
(***************************************************************************)

\* C1, as stated: for every Path p with a non-empty Bucket, FromURI(p.ToURI())
\* returns a nil error and p itself, field for field.
C1_RoundTripExact ==
    (Done("RoundTrip") /\ p.Bucket # << >>) => (retErr = NilError /\ retPath = p)

\* The Paths that come back from FromURI(p.ToURI()): the trimmed Bucket is a
\* non-empty host-safe name other than ".", the trimmed Key is empty or plain.
RoundTrips(q) ==
    LET b == Trim(q.Bucket, SLASH)
        k == Trim(q.Key, SLASH)
    IN /\ b # << >>
       /\ b # DotSeg
       /\ \A i \in 1..Len(b) : BucketSafe(b[i])
       /\ k = << >> \/ PlainPath(k)

\* C1, amended: for every Path p whose trimmed Bucket is non-empty, host-safe
\* and not ".", and whose trimmed Key has no empty, "." or ".." segment,
\* FromURI(p.ToURI()) returns a nil error and the Path of the trimmed Bucket
\* and the trimmed Key; an empty Key comes back as "".
C1_RoundTripTrimmed ==
    (Done("RoundTrip") /\ RoundTrips(p)) =>
        /\ retErr = NilError
        /\ retPath = MkPath(Trim(p.Bucket, SLASH), Trim(p.Key, SLASH))
        /\ IsTrimOf(retPath.Bucket, p.Bucket)
        /\ IsTrimOf(retPath.Key, p.Key)
        /\ p.Key = << >> => retPath.Key = << >>

\* A round trip of a Path with separators to trim and a Key that is escaped.
C1_Witness ==
    /\ Done("RoundTrip") /\ RoundTrips(p)
    /\ p.Bucket # Trim(p.Bucket, SLASH)
    /\ \E i \in 1..Len(p.Key) : p.Key[i] \in {SPACE, PERCENT}
    /\ retPath.Key = p.Key

\* C2, as stated: p.Join() is trim(Bucket) + "/" + trim(Key) for every Path.
C2_JoinIsConcatenation ==
    Done("Join") => ret = Trim(p.Bucket, SLASH) \o <<SLASH>> \o Trim(p.Key, SLASH)

\* C2, amended: p.Join() is the trimmed Bucket and the trimmed Key joined as a
\* path: trim(Bucket) + "/" + trim(Key) when both are plain, the other part
\* alone when one is empty, "" when both are, and in every case the normal
\* form (repeated '/' collapsed, "." and ".." segments resolved) of the join.
C2_JoinIsCleanJoin ==
    Done("Join") =>
        LET b == Trim(p.Bucket, SLASH)
            k == Trim(p.Key, SLASH)
        IN /\ IsTrimOf(b, p.Bucket) /\ IsTrimOf(k, p.Key)
           /\ ret = JoinedParts(b, k)
           /\ (PlainPath(b) /\ PlainPath(k)) => ret = b \o <<SLASH>> \o k
           /\ (PlainPath(b) /\ k = << >>) => ret = b
           /\ (b = << >> /\ PlainPath(k)) => ret = k
           /\ ret = << >> \/ (ret[1] # SLASH /\ ret[Len(ret)] # SLASH)

\* A Join that trims both parts and collapses a repeated separator.
C2_Witness ==
    /\ Done("Join")
    /\ p.Bucket # << >> /\ p.Bucket[1] = SLASH
    /\ p.Key # << >> /\ p.Key[Len(p.Key)] = SLASH
    /\ ret = Str(<<"a", "/", "a">>)

\* The strings FromURI fails on for their scheme or host: the scheme before
\* the first ':' is not "s3", or the string parses and has no host.
BadSchemeOrHost(uri) ==
    \/ ToLower(getScheme(uri).scheme) # S3Scheme
    \/ Parse(uri).err = NilError /\ Parse(uri).url.Host = << >>

\* C3, as stated: every string whose scheme is not "s3" or whose host is empty
\* gives Path{} and ParseError of the string.
C3_BadInputGivesParseError ==
    (Done("FromURI") /\ BadSchemeOrHost(arg)) =>
        (retPath = ZeroPath /\ retErr = ParseError(arg))

\* C3, amended: every string that url.Parse accepts and whose scheme is not
\* "s3" or whose host is empty gives Path{} and ParseError of the string
\* unchanged; a string that url.Parse rejects gives Path{} and the error of
\* url.Parse.
C3_ParsedBadInputGivesParseError ==
    Done("FromURI") =>
        /\ (Parse(arg).err = NilError /\ BadSchemeOrHost(arg)) =>
               (retPath = ZeroPath /\ retErr = ParseError(arg) /\ retErr.arg = arg)
        /\ Parse(arg).err # NilError =>
               (retPath = ZeroPath /\ retErr = Parse(arg).err /\ retErr.kind = "url.Error")
        /\ (retErr.kind # "url.Error"
            /\ (~HasPrefix(ToLower(arg), S3Prefix) \/ HasPrefix(arg, S3Prefix \o <<SLASH>>)))
             => retErr = ParseError(arg)

\* FromURI on the malformed form "s3:/b..." : a ParseError of the input.
C3_Witness ==
    /\ Done("FromURI")
    /\ HasPrefix(arg, Str(<<"s", "3", ":", "/", "b">>))
    /\ retErr = ParseError(arg)
    /\ retPath = ZeroPath

\* C4: when FromURI succeeds, the Bucket is the host of the URI and the Key is
\* its path without one leading '/'; no path and the path "/" both give the
\* Key "", so "s3://b" and "s3://b/" give the same Path.
C4_BucketIsHostKeyIsPath ==
    (pc = "done" /\ op \in {"FromURI", "RoundTrip"} /\ retErr = NilError) =>
        /\ retPath.Bucket = Parse(arg).url.Host
        /\ retPath.Key = StripOneSlash(Parse(arg).url.Path)
        /\ Parse(arg).url.Path \in {<< >>, <<SLASH>>} => retPath.Key = << >>
        /\ arg \in {S3Prefix \o Str(<<"b">>), S3Prefix \o Str(<<"b", "/">>)} =>
               retPath = MkPath(Str(<<"b">>), << >>)
        /\ \A i \in 1..Len(arg) - Len(S3Prefix) :
              LET host == SubSeq(arg, Len(S3Prefix) + 1, Len(S3Prefix) + i)
                  rest == From(arg, Len(S3Prefix) + i)
              IN (/\ HasPrefix(arg, S3Prefix)
                  /\ \A j \in 1..Len(host) : IsAlnum(host[j])
                  /\ rest = << >> \/ rest[1] = SLASH
                  /\ \A j \in 1..Len(rest) : rest[j] \in {SLASH, COLON, AT} \/ IsAlnum(rest[j]))
                 => retPath = MkPath(host, StripOneSlash(rest))

\* FromURI succeeds on "s3://b/" and gives the Key "".
C4_Witness ==
    /\ Done("FromURI")
    /\ arg = S3Prefix \o Str(<<"b", "/">>)
    /\ retErr = NilError
    /\ retPath.Key = << >>

\* C5, as stated: FromURI returns (a Path, nil) or (Path{}, ParseError(input))
\* and nothing else, and returns nil for every input with the scheme "s3" and
\* a non-empty host.
C5_TwoOutcomes ==
    Done("FromURI") =>
        /\ retErr = NilError \/ (retPath = ZeroPath /\ retErr = ParseError(arg))
        /\ (/\ ToLower(getScheme(arg).scheme) = S3Scheme
            /\ HasPrefix(getScheme(arg).path, <<SLASH, SLASH>>)
            /\ ~HasPrefix(getScheme(arg).path, <<SLASH, SLASH, SLASH>>)
            /\ getScheme(arg).path # <<SLASH, SLASH>>)
             => retErr = NilError

\* C5, amended: FromURI is total with exactly three outcomes: (a Path, nil),
\* (Path{}, ParseError(input)), or (Path{}, the error of url.Parse) when
\* url.Parse rejects the input; every input that url.Parse accepts with the
\* scheme "s3" and a non-empty host gives a Path with a nil error.
C5_ThreeOutcomes ==
    Done("FromURI") =>
        /\ \/ retErr = NilError /\ Parse(arg).err = NilError
           \/ retPath = ZeroPath /\ retErr = ParseError(arg) /\ Parse(arg).err = NilError
           \/ retPath = ZeroPath /\ retErr.kind = "url.Error" /\ retErr = Parse(arg).err
        /\ (/\ Parse(arg).err = NilError
            /\ Parse(arg).url.Scheme = S3Scheme
            /\ Parse(arg).url.Host # << >>)
             => (retErr = NilError /\ retPath.Bucket # << >>)

\* FromURI on a string with the scheme "s3" and the host "b" that url.Parse
\* rejects: the error of url.Parse comes back.
C5_Witness ==
    /\ Done("FromURI")
    /\ HasPrefix(arg, S3Prefix \o Str(<<"b", "/">>))
    /\ retErr.kind = "url.Error"
    /\ retPath = ZeroPath

C7_AppendJoinsLikeJoin ==
    Done("Append") =>
        /\ retPath.Bucket = p.Bucket
        /\ retPath.Key = Join(MkPath(p.Key, arg))
        /\ retPath.Key = << >>
           \/ (retPath.Key[1] # SLASH /\ retPath.Key[Len(retPath.Key)] # SLASH)

\* C7, amended: Append(p, suffix) keeps the Bucket and joins Key and suffix as
\* path.Join does: an empty part is left out, the parts are joined by one '/',
\* and the result is in normal form, so the Key has no trailing '/' (unless it
\* is "/" itself); a leading '/' of the first non-empty part is kept.
C7_AppendIsPathJoin ==
    Done("Append") =>
        LET first == IF p.Key # << >> THEN p.Key ELSE arg
            key == retPath.Key
        IN /\ retPath.Bucket = p.Bucket
           /\ key = JoinedParts(p.Key, arg)
           /\ (PlainPath(p.Key) /\ PlainPath(arg)) => key = p.Key \o <<SLASH>> \o arg
           /\ key \in {<< >>, <<SLASH>>} \/ key[Len(key)] # SLASH
           /\ (key # << >> /\ key[1] = SLASH) <=> (first # << >> /\ first[1] = SLASH)

\* An Append whose Key starts with '/' and whose suffix ends with one.
C7_Witness ==
    /\ Done("Append")
    /\ p.Key # << >> /\ p.Key[1] = SLASH
    /\ arg # << >> /\ arg[Len(arg)] = SLASH
    /\ retPath.Key = Str(<<"/", "a", "/", "a">>)

\* C8: after a successful AddBucketTag the tags of the bucket are the merge of
\* the tags it had and the tags supplied: every key of either is there, a key
\* of one side has that side's value, a key of both has the supplied value
\* when overwrite is true and the earlier value when it is false.
C8_TagsAreMerged ==
    (tagCall.op = "AddBucketTag" /\ tagCall.err = NilError) =>
        /\ DOMAIN tagSet = DOMAIN tagCall.before \cup DOMAIN tagCall.tags
        /\ \A k \in DOMAIN tagSet :
              tagSet[k] = IF k \notin DOMAIN tagCall.before THEN tagCall.tags[k]
                          ELSE IF k \notin DOMAIN tagCall.tags THEN tagCall.before[k]
                          ELSE IF tagCall.overwrite THEN tagCall.tags[k]
                          ELSE tagCall.before[k]

\* A successful AddBucketTag without overwrite on a key the bucket has with
\* another value, and with a key the bucket did not have.
C8_Witness ==
    /\ tagCall.op = "AddBucketTag" /\ tagCall.err = NilError
    /\ ~tagCall.overwrite
    /\ \E k \in DOMAIN tagCall.before \cap DOMAIN tagCall.tags :
          tagCall.before[k] # tagCall.tags[k]
    /\ \E k \in DOMAIN tagCall.tags : k \notin DOMAIN tagCall.before

\* C9: when GetBucketTagging fails with NoSuchTagSet, AddBucketTag goes on and
\* writes exactly the supplied tags; when it fails with any other error, that
\* error is returned, PutBucketTagging is not called and the tags of the
\* bucket stay as they were.
C9_ReadFailure ==
    tagCall.op = "AddBucketTag" =>
        /\ tagCall.getErr = AwsError("NoSuchTagSet") =>
               (tagCall.putCalled /\ tagCall.putArg = tagCall.tags)
        /\ tagCall.getErr \notin {NilError, AwsError("NoSuchTagSet")} =>
               (tagCall.err = tagCall.getErr /\ ~tagCall.putCalled /\ tagSet = tagCall.before)

\* An AddBucketTag on a bucket with tags whose read fails with an error
\* other than NoSuchTagSet.
C9_Witness ==
    /\ tagCall.op = "AddBucketTag"
    /\ tagCall.getErr = AwsError("AccessDenied")
    /\ tagCall.before # EmptyMap
    /\ tagCall.tags # EmptyMap
    /\ tagCall.err = AwsError("AccessDenied")

\* C10: after DeleteRecursive(p) returns nil the bucket holds no object whose
\* key starts with p.Key + "/", at any depth, the objects outside that prefix
\* are untouched, and for an empty Key the objects that List and
\* ListDirectories address for an empty Key are gone.
C10_DeleteIsRecursive ==
    (objCall.op = "DeleteRecursive" /\ objCall.err = NilError) =>
        /\ \A k \in objects : ~HasPrefix(k, objCall.key \o <<SLASH>>)
        /\ \A k \in objCall.before :
              (objCall.key # << >> /\ ~HasPrefix(k, objCall.key \o <<SLASH>>)) => k \in objects
        /\ objCall.key = << >> =>
              \A k \in objCall.before : HasPrefix(k, listBasePrefix(<< >>)) => k \notin objects

=============================================================================
